---- MODULE Spec2Model ----
(***************************************************************************)
(* Tenant lifecycle of the distro backend (tenants/utils.py,               *)
(* tenants/models.py): the Utility and Domain rows of the shared schema,   *)
(* the per-tenant schemas, and the lifecycle operations that act on them.  *)
(*                                                                         *)
(* The ORM runs in autocommit mode (settings.py sets no ATOMIC_REQUESTS),  *)
(* so every ORM statement outside a transaction.atomic() block is its own  *)
(* transaction: one action of a worker is one statement, or one atomic     *)
(* block. The local computation that follows a statement belongs to the    *)
(* same action. Workers are the concurrent requests.                       *)
(*                                                                         *)
(* utils.py reads and writes Utility.is_deleted, Utility.deleted_on and    *)
(* Domain.is_active. models.py declares none of the three (Utility, lines  *)
(* 7-65, has is_active only; Domain, lines 68-77, adds nothing to its      *)
(* base class). The statements of utils.py are modelled as written, over   *)
(* rows that carry these columns, a new row having is_deleted = False and  *)
(* deleted_on = None. The base classes TenantMixin and DomainMixin and the *)
(* schema commands belong to the tenancy library: of them the model keeps  *)
(* the unique schema_name and domain columns, the cascade from Utility to  *)
(* Domain, and the schema operations as fallible steps.                    *)
(* The database is PostgreSQL (settings.py:94): a rolled back atomic block *)
(* undoes the schema DDL it ran together with its row changes.             *)
(* Timestamps are abstracted to None and one instant, now.                 *)
(*                                                                         *)
(* Two save() overrides of the tenant apps are modelled next to it:        *)
(* Ticket.save (customer_support/models.py), over a clock that counts      *)
(* seconds, and Asset.save (infrastructure/models.py).                     *)
(***************************************************************************)
EXTENDS Integers, Sequences, FiniteSets

\* ---- bounds ----
\* tenants ever created when calls run one at a time
MaxTenants == 2
\* tenants ever created when calls run concurrently
MaxConcurrentTenants == 1
\* tenants that exist before the creations under study begin
MaxExisting == 3
\* creations under study that may be in progress or committed
MaxCreated == 2

Workers == {"w1", "w2"}
Ids == 1..MaxTenants
Hosts == {"h1", "h2"}

\* Display names, as sequences of characters.
Names == { <<"1", "A", " ", "-">>, <<"N", " ", "w">>, <<"-">> }

None == {}
Some(x) == {x}
\* confirm_name: None, the empty string, or a name
ConfirmArgs == {None, Some(<<>>), Some(<<"1", "a", " ", "-">>), Some(<<"1", "A", " ", "-">>)}
\* is_active argument of toggle_tenant_status: None, True or False
ActiveArgs == {None, Some(TRUE), Some(FALSE)}

\* deleted_on: None, or the value of timezone.now()
NoTime == "None"
Now == "now"

\* tickets created
MaxTickets == 2
\* the latest second the clock reaches
MaxClock == 2
\* assets that exist at a time
MaxAssets == 3

\* ---- characters ----
UpperSeq == <<"A","B","C","D","E","F","G","H","I","J","K","L","M",
              "N","O","P","Q","R","S","T","U","V","W","X","Y","Z">>
LowerSeq == <<"a","b","c","d","e","f","g","h","i","j","k","l","m",
              "n","o","p","q","r","s","t","u","v","w","x","y","z">>
DigitSeq == <<"0","1","2","3","4","5","6","7","8","9">>

Range(s) == { s[i] : i \in DOMAIN s }
LowerChars == Range(LowerSeq)
DigitChars == Range(DigitSeq)

\* str.lower() on one character
ToLower(c) ==
  IF \E i \in DOMAIN UpperSeq : UpperSeq[i] = c
  THEN LowerSeq[CHOOSE i \in DOMAIN UpperSeq : UpperSeq[i] = c]
  ELSE c

\* str.upper() on one character
ToUpper(c) ==
  IF \E i \in DOMAIN LowerSeq : LowerSeq[i] = c
  THEN UpperSeq[CHOOSE i \in DOMAIN LowerSeq : LowerSeq[i] = c]
  ELSE c

\* str(counter)
RECURSIVE Str(_)
Str(n) == IF n < 10 THEN <<DigitSeq[n + 1]>>
          ELSE Str(n \div 10) \o <<DigitSeq[(n % 10) + 1]>>

\* (mutant) the characters outside [a-z0-9_] are kept
RECURSIVE Normalize_KeepsAll(_)
Normalize_KeepsAll(name) ==
  IF name = <<>> THEN <<>>
  ELSE LET c0 == ToLower(Head(name))
       IN  <<IF c0 = " " THEN "_" ELSE c0>> \o Normalize_KeepsAll(Tail(name))

\* re.sub(r'[^a-z0-9_]', '', name.lower().replace(' ', '_'))
RECURSIVE Normalize(_)
Normalize(name) ==
  IF name = <<>> THEN <<>>
  ELSE LET c0 == ToLower(Head(name))
           c  == IF c0 = " " THEN "_" ELSE c0
       IN  (IF c \in LowerChars \cup DigitChars \cup {"_"} THEN <<c>> ELSE <<>>)
           \o Normalize(Tail(name))

\* schema_name[0] raises IndexError on the empty string
SchemaNameRaises(name) == Normalize(name) = <<>>

\* (mutant) the prefix is forgotten
Prefixed_Missing(name) == Normalize(name)

\* "Ensure it starts with a letter"
Prefixed(name) ==
  LET s == Normalize(name)
  IN  IF s[1] \notin LowerChars THEN <<"t","e","n","a","n","t","_">> \o s ELSE s

\* the while loop probing base_1, base_2, ...
RECURSIVE Probe(_, _, _)
Probe(base, counter, existing) ==
  LET cand == base \o <<"_">> \o Str(counter)
  IN  IF cand \in existing THEN Probe(base, counter + 1, existing) ELSE cand

\* (mutant) the counter starts at 2
_generate_schema_name_FromTwo(name, existing) ==
  LET base == Prefixed(name)
  IN  IF base \in existing THEN Probe(base, 2, existing) ELSE base

_generate_schema_name(name, existing) ==
  LET base == Prefixed(name)
  IN  IF base \in existing THEN Probe(base, 1, existing) ELSE base

\* Utility.save: the schema name given to a row saved without one,
\* "utility_" + re.sub(r'[^a-zA-Z0-9]', '_', name.lower())
UtilitySaveSchemaName(name) ==
  <<"u","t","i","l","i","t","y","_">> \o
  [i \in DOMAIN name |->
     IF ToLower(name[i]) \in LowerChars \cup DigitChars THEN ToLower(name[i]) ELSE "_"]

\* ^[a-z][a-z0-9_]*$
MatchesSchemaPattern(s) ==
  /\ Len(s) >= 1
  /\ s[1] \in LowerChars
  /\ \A i \in DOMAIN s : s[i] \in LowerChars \cup DigitChars \cup {"_"}

\* ---- state ----
VARIABLES
  utility,   \* Utility rows: id -> row
  domains,   \* Domain rows in primary-key order
  schemas,   \* schemas that physically exist
  migrated,  \* schemas the migration set has been applied to
  nextId,    \* next Utility id
  pc,        \* each worker's position in its call
  local,     \* each worker's local variables
  last,      \* outcome of the call that returned in the latest step, if any
  tickets,   \* Ticket rows in primary-key order
  clock,     \* the current time, in seconds
  assets     \* Asset rows

vars == <<utility, domains, schemas, migrated, nextId, pc, local, last,
          tickets, clock, assets>>
db == <<utility, domains, schemas, migrated>>

\* The lifecycle fields of a fetched Utility object.
Flags(row) ==
  [is_active |-> row.is_active, is_deleted |-> row.is_deleted, deleted_on |-> row.deleted_on]
NoFlags == [is_active |-> FALSE, is_deleted |-> FALSE, deleted_on |-> NoTime]

\* History: the call that returned just before this one began, on the same
\* tenant and successfully (op), and the fields that call had fetched (was).
NoCall == [op |-> "none", was |-> NoFlags]

\* The dict get_tenant_info returns; created_on and updated_on are left out
\* with the timestamps.
NoInfo ==
  [id |-> 0, name |-> <<>>, schema_name |-> <<>>, is_active |-> FALSE,
   is_deleted |-> FALSE, deleted_on |-> NoTime, domains |-> <<>>]

\* A worker's local variables: arg is the is_active argument as passed, was
\* the lifecycle fields of the object the call fetched.
NoLocal ==
  [id |-> 0, name |-> <<>>, schema |-> <<>>, host |-> "", flag |-> FALSE, n |-> 0,
   arg |-> None, was |-> NoFlags, after |-> NoCall,
   active_only |-> FALSE, include_deleted |-> FALSE]
NoResult ==
  [op |-> "none", id |-> 0, status |-> "", detail |-> "", n |-> 0,
   arg |-> None, was |-> NoFlags, after |-> NoCall, info |-> NoInfo,
   active_only |-> FALSE, include_deleted |-> FALSE, rows |-> <<>>]

\* What a call returns or raises: status is the error of the taxonomy (or OK),
\* detail the exception the ValidationError message wraps, n the number of
\* primary flags the call cleared (for list_tenants the count it logged), info
\* the value get_tenant_info returns, rows the ids of the tenants a listing
\* yields, in its order; arg, was, after, active_only and include_deleted are
\* the call's, as in its local variables.
Result(op, id, status, detail) ==
  [op |-> op, id |-> id, status |-> status, detail |-> detail, n |-> 0,
   arg |-> None, was |-> NoFlags, after |-> NoCall, info |-> NoInfo,
   active_only |-> FALSE, include_deleted |-> FALSE, rows |-> <<>>]

Exists(id) == id \in DOMAIN utility
SchemaNames == { utility[i].schema_name : i \in DOMAIN utility }
HostNames == { domains[i].domain : i \in DOMAIN domains }
DomainsIn(ds, id) == { i \in DOMAIN ds : ds[i].tenant = id }
PrimariesIn(ds, id) == { i \in DomainsIn(ds, id) : ds[i].is_primary }
DomainsOf(id) == DomainsIn(domains, id)
PrimariesOf(id) == PrimariesIn(domains, id)

\* (mutant) the delete does not cascade
Without_NoCascade(ds, id) == ds

\* on_delete=CASCADE: the Domain rows of a deleted Utility go with it
RECURSIVE Without(_, _)
Without(ds, id) ==
  IF ds = <<>> THEN <<>>
  ELSE (IF Head(ds).tenant = id THEN <<>> ELSE <<Head(ds)>>) \o Without(Tail(ds), id)

Min(S) == CHOOSE x \in S : \A y \in S : x <= y

Init ==
  /\ utility = <<>>
  /\ domains = <<>>
  /\ schemas = {}
  /\ migrated = {}
  /\ nextId = 1
  /\ pc = [w \in Workers |-> "idle"]
  /\ local = [w \in Workers |-> NoLocal]
  /\ last = NoResult
  /\ tickets = <<>>
  /\ clock = 0
  /\ assets = {}

Return(w, res) ==
  /\ pc' = [pc EXCEPT ![w] = "idle"]
  /\ local' = [local EXCEPT ![w] = NoLocal]
  /\ last' = res
  /\ UNCHANGED <<tickets, clock, assets>>

Goto(w, label, loc) ==
  /\ pc' = [pc EXCEPT ![w] = label]
  /\ local' = [local EXCEPT ![w] = loc]
  /\ last' = NoResult
  /\ UNCHANGED <<tickets, clock, assets>>

\* ---- create_tenant ----
\* Entering the atomic block and generating the schema name: the queries of
\* _generate_schema_name see the committed rows. is_primary keeps its default,
\* True, as in every call of the repository.
create_tenant(w, name, domain_name) ==
  /\ pc[w] = "idle"
  /\ UNCHANGED <<db, nextId>>
  /\ IF SchemaNameRaises(name)
     THEN Return(w, Result("create", 0, "CreationError", "IndexError"))
     ELSE Goto(w, "ct_commit",
               [NoLocal EXCEPT !.name = name, !.host = domain_name, !.flag = TRUE,
                               !.schema = _generate_schema_name(name, SchemaNames)])

CreateCall(w) == \E name \in Names, domain_name \in Hosts : create_tenant(w, name, domain_name)

\* (mutant) the rollback leaves the provisioned schema behind
CreateRollback_SchemaStays(l) ==
  /\ schemas' = schemas \cup {l.schema}
  /\ UNCHANGED <<utility, domains, migrated, nextId>>

\* What the rolled back atomic block of create_tenant leaves behind.
CreateRollback(l) == UNCHANGED <<db, nextId>>

\* Utility.objects.create(schema_name=..., name=name, is_active=True)
NewUtility(name, schema_name) ==
  [name |-> name, schema_name |-> schema_name, is_active |-> TRUE,
   is_deleted |-> FALSE, deleted_on |-> NoTime]

\* create_tenant's Domain.objects.create(domain=..., tenant=utility, is_primary=..., is_active=True)
FirstDomain(host, id, is_primary) ==
  [domain |-> host, tenant |-> id, is_primary |-> is_primary, is_active |-> TRUE]

\* (mutant) schema_name carries no unique constraint
CreateFault_SchemaNotUnique(l, fault) ==
  IF l.host \in HostNames THEN "IntegrityError(domain)" ELSE fault

\* The exception the atomic block of create_tenant ends with, if any: the
\* insert of the Utility row fails on a schema_name that is taken, the insert
\* of the Domain row on a domain that is taken.
CreateFault(l, fault) ==
  IF l.schema \in SchemaNames THEN "IntegrityError(schema_name)"
  ELSE IF l.host \in HostNames THEN "IntegrityError(domain)"
  ELSE fault

\* The rows, the schema and its migrations, committed together when the atomic
\* block exits; any exception inside the block rolls all of it back.
CreateCommit(w) ==
  /\ pc[w] = "ct_commit"
  /\ LET l == local[w] IN
     \E fault \in {"none", "create_schema", "migrate_schemas"} :
       IF CreateFault(l, fault) # "none"
       THEN /\ CreateRollback(l)
            /\ Return(w, Result("create", 0, "CreationError", CreateFault(l, fault)))
       ELSE /\ utility' = [i \in DOMAIN utility \cup {nextId} |->
                             IF i = nextId THEN NewUtility(l.name, l.schema)
                             ELSE utility[i]]
            /\ domains' = Append(domains, FirstDomain(l.host, nextId, l.flag))
            /\ schemas' = schemas \cup {l.schema}
            /\ migrated' = migrated \cup {l.schema}
            /\ nextId' = nextId + 1
            /\ Return(w, Result("create", nextId, "OK", ""))

\* ---- shared checks ----
\* History: the call of the given kind that has just returned successfully
\* for this tenant, if the latest step was its return.
Preceding(utility_id, op) ==
  IF last.op = op /\ last.status = "OK" /\ last.id = utility_id
  THEN [op |-> op, was |-> last.was]
  ELSE NoCall

\* "if confirm_name and confirm_name != utility.name"
ConfirmationFails(confirm_name, name) == \E c \in confirm_name : c # <<>> /\ c # name

\* (mutant) is_active is left as it was
SetFlags_KeepsActive(id, deleted, active, on) ==
  [utility EXCEPT ![id] = [@ EXCEPT !.is_deleted = deleted, !.deleted_on = on]]

\* (mutant) the save derives the schema name again, as for a row without one
SetFlags_Renames(id, deleted, active, on) ==
  [utility EXCEPT ![id] = [@ EXCEPT !.is_deleted = deleted, !.is_active = active,
                                     !.deleted_on = on,
                                     !.schema_name = UtilitySaveSchemaName(utility[id].name)]]

\* the three assignments that precede utility.save(update_fields=[...])
SetFlags(id, deleted, active, on) ==
  [utility EXCEPT ![id] = [@ EXCEPT !.is_deleted = deleted, !.is_active = active,
                                     !.deleted_on = on]]

\* ---- soft_delete_tenant ----
\* (mutant) the check is left out
SoftDeleteRefused_Never(row) == FALSE

\* "if utility.is_deleted"
SoftDeleteRefused(row) == row.is_deleted

\* Utility.objects.get(id=utility_id) and the checks on the fetched object
soft_delete_tenant(w, utility_id, confirm_name) ==
  /\ pc[w] = "idle"
  /\ UNCHANGED <<db, nextId>>
  /\ IF ~Exists(utility_id)
     THEN Return(w, Result("soft_delete", utility_id, "NotFound", ""))
     ELSE IF ConfirmationFails(confirm_name, utility[utility_id].name)
     THEN Return(w, Result("soft_delete", utility_id, "ConfirmationMismatch", ""))
     ELSE IF SoftDeleteRefused(utility[utility_id])
     THEN Return(w, Result("soft_delete", utility_id, "AlreadyDeleted", ""))
     ELSE Goto(w, "sd_save", [NoLocal EXCEPT !.id = utility_id])

SoftDeleteCall(w) ==
  \E utility_id \in Ids, confirm_name \in ConfirmArgs :
    soft_delete_tenant(w, utility_id, confirm_name)

\* utility.save(update_fields=['is_deleted', 'is_active', 'deleted_on'])
SoftDeleteSave(w) ==
  /\ pc[w] = "sd_save"
  /\ LET id == local[w].id IN
     IF ~Exists(id)
     THEN /\ Return(w, Result("soft_delete", id, "Failed", "DatabaseError"))
          /\ UNCHANGED <<db, nextId>>
     ELSE /\ utility' = SetFlags(id, TRUE, FALSE, Now)
          /\ Goto(w, "sd_domains", local[w])
          /\ UNCHANGED <<domains, schemas, migrated, nextId>>

\* utility.domains.update(is_active=False)
SoftDeleteDomains(w) ==
  /\ pc[w] = "sd_domains"
  /\ LET id == local[w].id IN
     /\ domains' = [i \in DOMAIN domains |->
                      IF domains[i].tenant = id
                      THEN [domains[i] EXCEPT !.is_active = FALSE]
                      ELSE domains[i]]
     /\ Return(w, Result("soft_delete", id, "OK", ""))
     /\ UNCHANGED <<utility, schemas, migrated, nextId>>

\* ---- restore_tenant ----
\* (mutant) an INACTIVE tenant passes the check
RestoreRefused_WhenActive(row) == ~row.is_deleted /\ row.is_active

\* "if not utility.is_deleted"
RestoreRefused(row) == ~row.is_deleted

restore_tenant(w, utility_id) ==
  /\ pc[w] = "idle"
  /\ UNCHANGED <<db, nextId>>
  /\ IF ~Exists(utility_id)
     THEN Return(w, Result("restore", utility_id, "NotFound", ""))
     ELSE IF RestoreRefused(utility[utility_id])
     THEN Return(w, Result("restore", utility_id, "NotDeleted", ""))
     ELSE Goto(w, "rs_save", [NoLocal EXCEPT !.id = utility_id,
                                             !.after = Preceding(utility_id, "soft_delete")])

RestoreCall(w) == \E utility_id \in Ids : restore_tenant(w, utility_id)

\* utility.save(update_fields=['is_deleted', 'is_active', 'deleted_on'])
RestoreSave(w) ==
  /\ pc[w] = "rs_save"
  /\ LET id == local[w].id IN
     IF ~Exists(id)
     THEN /\ Return(w, Result("restore", id, "Failed", "DatabaseError"))
          /\ UNCHANGED <<db, nextId>>
     ELSE /\ utility' = SetFlags(id, FALSE, TRUE, NoTime)
          /\ Goto(w, "rs_primary", local[w])
          /\ UNCHANGED <<domains, schemas, migrated, nextId>>

\* (mutant) every domain of the tenant is reactivated
RestorePrimary_All(w) ==
  /\ pc[w] = "rs_primary"
  /\ domains' = [i \in DOMAIN domains |->
                   IF domains[i].tenant = local[w].id
                   THEN [domains[i] EXCEPT !.is_active = TRUE]
                   ELSE domains[i]]
  /\ Return(w, [Result("restore", local[w].id, "OK", "") EXCEPT !.after = local[w].after])
  /\ UNCHANGED <<utility, schemas, migrated, nextId>>

\* utility.domains.filter(is_primary=True).first(), then its save
RestorePrimary(w) ==
  /\ pc[w] = "rs_primary"
  /\ LET id == local[w].id
         prim == PrimariesOf(id)
     IN  /\ domains' = IF prim = {} THEN domains
                       ELSE [domains EXCEPT ![Min(prim)].is_active = TRUE]
         /\ Return(w, [Result("restore", id, "OK", "") EXCEPT !.after = local[w].after])
         /\ UNCHANGED <<utility, schemas, migrated, nextId>>

\* ---- permanently_delete_tenant ----
\* (mutant) the guard tests is_active instead of is_deleted
PurgeRefused_WhenActive(row) == row.is_active

\* "if not utility.is_deleted"
PurgeRefused(row) == ~row.is_deleted

permanently_delete_tenant(w, utility_id, confirm_name) ==
  /\ pc[w] = "idle"
  /\ UNCHANGED <<db, nextId>>
  /\ IF ~Exists(utility_id)
     THEN Return(w, Result("purge", utility_id, "NotFound", ""))
     ELSE IF ConfirmationFails(confirm_name, utility[utility_id].name)
     THEN Return(w, Result("purge", utility_id, "ConfirmationMismatch", ""))
     ELSE IF PurgeRefused(utility[utility_id])
     THEN Return(w, Result("purge", utility_id, "NotSoftDeleted", ""))
     ELSE Goto(w, "pd_atomic",
               [NoLocal EXCEPT !.id = utility_id,
                               !.schema = utility[utility_id].schema_name])

PurgeCall(w) ==
  \E utility_id \in Ids, confirm_name \in ConfirmArgs :
    permanently_delete_tenant(w, utility_id, confirm_name)

\* (mutant) the schema dropped inside the block stays dropped
PurgeRollback_SchemaGone(l) ==
  /\ schemas' = schemas \ {l.schema}
  /\ UNCHANGED <<utility, domains, migrated, nextId>>

\* What the rolled back atomic block of permanently_delete_tenant leaves behind.
PurgeRollback(l) == UNCHANGED <<db, nextId>>

\* The step of the atomic block that raises, if any: the schema drop (also
\* when another request has already dropped the schema) or the row delete.
PurgeFault(l, fault) ==
  IF ~Exists(l.id) \/ l.schema \notin schemas THEN "delete_schema" ELSE fault

\* with transaction.atomic(): utility.delete_schema(); utility.delete()
PurgeAtomic(w) ==
  /\ pc[w] = "pd_atomic"
  /\ LET id == local[w].id IN
     \E fault \in {"none", "delete_schema", "delete"} :
       IF PurgeFault(local[w], fault) # "none"
       THEN /\ Return(w, Result("purge", id, "Failed", PurgeFault(local[w], fault)))
            /\ PurgeRollback(local[w])
       ELSE /\ schemas' = schemas \ {local[w].schema}
            /\ migrated' = migrated \ {local[w].schema}
            /\ utility' = [i \in DOMAIN utility \ {id} |-> utility[i]]
            /\ domains' = Without(domains, id)
            /\ Return(w, Result("purge", id, "OK", ""))
            /\ UNCHANGED nextId

\* ---- add_domain_to_tenant ----
add_domain_to_tenant(w, utility_id, domain_name, is_primary) ==
  /\ pc[w] = "idle"
  /\ UNCHANGED <<db, nextId>>
  /\ IF ~Exists(utility_id)
     THEN Return(w, Result("add_domain", utility_id, "NotFound", ""))
     ELSE Goto(w, IF is_primary THEN "ad_clear" ELSE "ad_create",
               [NoLocal EXCEPT !.id = utility_id, !.host = domain_name,
                               !.flag = is_primary])

AddDomainCall(w) ==
  \E utility_id \in Ids, domain_name \in Hosts, is_primary \in BOOLEAN :
    add_domain_to_tenant(w, utility_id, domain_name, is_primary)

\* (mutant) the update is left out
ClearPrimaries_Skipped(ds, id) == ds

\* Domain.objects.filter(tenant=utility, is_primary=True).update(is_primary=False)
ClearPrimaries(ds, id) ==
  [i \in DOMAIN ds |->
     IF ds[i].tenant = id /\ ds[i].is_primary
     THEN [ds[i] EXCEPT !.is_primary = FALSE]
     ELSE ds[i]]

\* the update's return value, the number of rows matched, is kept in n
AddDomainClear(w) ==
  /\ pc[w] = "ad_clear"
  /\ domains' = ClearPrimaries(domains, local[w].id)
  /\ Goto(w, "ad_create", [local[w] EXCEPT !.n = Cardinality(PrimariesOf(local[w].id))])
  /\ UNCHANGED <<utility, schemas, migrated, nextId>>

\* (mutant) the new domain is never primary
NewDomain_NotPrimary(host, id, is_primary) ==
  [domain |-> host, tenant |-> id, is_primary |-> FALSE, is_active |-> TRUE]

\* add_domain_to_tenant's Domain.objects.create(domain=..., tenant=utility, is_primary=..., is_active=True)
NewDomain(host, id, is_primary) ==
  [domain |-> host, tenant |-> id, is_primary |-> is_primary, is_active |-> TRUE]

AddDomainCreate(w) ==
  /\ pc[w] = "ad_create"
  /\ LET l == local[w] IN
     IF l.host \in HostNames
     THEN /\ Return(w, [Result("add_domain", l.id, "DuplicateDomain", "IntegrityError")
                         EXCEPT !.n = l.n])
          /\ UNCHANGED <<db, nextId>>
     ELSE IF ~Exists(l.id)
     THEN /\ Return(w, [Result("add_domain", l.id, "Failed", "IntegrityError")
                         EXCEPT !.n = l.n])
          /\ UNCHANGED <<db, nextId>>
     ELSE /\ domains' = Append(domains, NewDomain(l.host, l.id, l.flag))
          /\ Return(w, [Result("add_domain", l.id, "OK", "") EXCEPT !.n = l.n])
          /\ UNCHANGED <<utility, schemas, migrated, nextId>>

\* ---- toggle_tenant_status ----
\* (mutant) without an argument the status is kept
NewStatus_Kept(is_active, row) ==
  IF is_active = None THEN row.is_active ELSE CHOOSE b \in is_active : TRUE

\* "if is_active is None: is_active = not utility.is_active"
NewStatus(is_active, row) ==
  IF is_active = None THEN ~row.is_active ELSE CHOOSE b \in is_active : TRUE

toggle_tenant_status(w, utility_id, is_active) ==
  /\ pc[w] = "idle"
  /\ UNCHANGED <<db, nextId>>
  /\ IF ~Exists(utility_id)
     THEN Return(w, Result("toggle", utility_id, "NotFound", ""))
     ELSE Goto(w, "tg_save",
               [NoLocal EXCEPT !.id = utility_id,
                               !.flag = NewStatus(is_active, utility[utility_id]),
                               !.arg = is_active,
                               !.was = Flags(utility[utility_id]),
                               !.after = IF is_active = None /\ last.arg = None
                                         THEN Preceding(utility_id, "toggle")
                                         ELSE NoCall])

ToggleCall(w) ==
  \E utility_id \in Ids, is_active \in ActiveArgs :
    toggle_tenant_status(w, utility_id, is_active)

\* utility.save(update_fields=['is_active'])
ToggleSave(w) ==
  /\ pc[w] = "tg_save"
  /\ LET id == local[w].id IN
     IF ~Exists(id)
     THEN /\ Return(w, Result("toggle", id, "DatabaseError", "DatabaseError"))
          /\ UNCHANGED <<db, nextId>>
     ELSE /\ utility' = [utility EXCEPT ![id].is_active = local[w].flag]
          /\ Return(w, [Result("toggle", id, "OK", "")
                         EXCEPT !.arg = local[w].arg, !.was = local[w].was,
                                !.after = local[w].after])
          /\ UNCHANGED <<domains, schemas, migrated, nextId>>

\* ---- get_tenant_info ----
\* deleted_on.isoformat() if utility.deleted_on else None
isoformat(deleted_on) == IF deleted_on = NoTime THEN NoTime ELSE "iso-" \o deleted_on

\* the entries of info['domains'], from utility.domains.all()
DomainEntries(ds, id) ==
  LET own == SelectSeq(ds, LAMBDA d : d.tenant = id)
  IN  [k \in DOMAIN own |->
         [domain |-> own[k].domain, is_primary |-> own[k].is_primary,
          is_active |-> own[k].is_active]]

\* (mutant) the deletion flag is not reported
TenantInfo_HidesDeleted(l, ds) ==
  [id |-> l.id, name |-> l.name, schema_name |-> l.schema,
   is_active |-> l.was.is_active, is_deleted |-> FALSE,
   deleted_on |-> isoformat(l.was.deleted_on),
   domains |-> DomainEntries(ds, l.id)]

\* the info dict, built from the fetched object and its prefetched domains
TenantInfo(l, ds) ==
  [id |-> l.id, name |-> l.name, schema_name |-> l.schema,
   is_active |-> l.was.is_active, is_deleted |-> l.was.is_deleted,
   deleted_on |-> isoformat(l.was.deleted_on),
   domains |-> DomainEntries(ds, l.id)]

\* Utility.objects.prefetch_related('domains').get(id=utility_id): the query
\* for the row
get_tenant_info(w, utility_id) ==
  /\ pc[w] = "idle"
  /\ UNCHANGED <<db, nextId>>
  /\ IF ~Exists(utility_id)
     THEN Return(w, Result("info", utility_id, "NotFound", ""))
     ELSE Goto(w, "gi_domains",
               [NoLocal EXCEPT !.id = utility_id,
                               !.name = utility[utility_id].name,
                               !.schema = utility[utility_id].schema_name,
                               !.was = Flags(utility[utility_id])])

GetInfoCall(w) == \E utility_id \in Ids : get_tenant_info(w, utility_id)

\* the prefetch query for the domains, and the dict built from both results
GetInfoDomains(w) ==
  /\ pc[w] = "gi_domains"
  /\ UNCHANGED <<db, nextId>>
  /\ Return(w, [Result("info", local[w].id, "OK", "")
                 EXCEPT !.info = TenantInfo(local[w], domains)])

\* ---- list_tenants ----
\* the code point of a character
Ord(c) ==
  IF c = " " THEN 32
  ELSE IF c = "-" THEN 45
  ELSE IF c = "_" THEN 95
  ELSE IF c \in DigitChars THEN 47 + (CHOOSE i \in DOMAIN DigitSeq : DigitSeq[i] = c)
  ELSE IF c \in LowerChars THEN 96 + (CHOOSE i \in DOMAIN LowerSeq : LowerSeq[i] = c)
  ELSE 64 + (CHOOSE i \in DOMAIN UpperSeq : UpperSeq[i] = c)

\* ORDER BY name: a <= b, comparing character by character
RECURSIVE NameLeq(_, _)
NameLeq(a, b) ==
  IF a = <<>> THEN TRUE
  ELSE IF b = <<>> THEN FALSE
  ELSE IF Head(a) # Head(b) THEN Ord(Head(a)) < Ord(Head(b))
  ELSE NameLeq(Tail(a), Tail(b))

\* order_by('name'); rows of equal name come in any order
OrderedByName(rows) ==
  \A i, j \in DOMAIN rows : i < j => NameLeq(utility[rows[i]].name, utility[rows[j]].name)

\* (mutant) soft-deleted tenants are never filtered out
Filtered_DeletedShown(active_only, include_deleted) ==
  IF active_only THEN { id \in DOMAIN utility : utility[id].is_active }
  ELSE DOMAIN utility

\* the queryset after the two conditional filters
Filtered(active_only, include_deleted) ==
  LET all == DOMAIN utility
      kept == IF ~include_deleted THEN { id \in all : ~utility[id].is_deleted } ELSE all
  IN  IF active_only THEN { id \in kept : utility[id].is_active } ELSE kept

\* list_tenants builds the queryset and runs its count() for the log line
list_tenants(w, active_only, include_deleted) ==
  /\ pc[w] = "idle"
  /\ UNCHANGED <<db, nextId>>
  /\ Goto(w, "lt_rows",
          [NoLocal EXCEPT !.active_only = active_only,
                          !.include_deleted = include_deleted,
                          !.n = Cardinality(Filtered(active_only, include_deleted))])

ListCall(w) ==
  \E active_only \in BOOLEAN, include_deleted \in BOOLEAN :
    list_tenants(w, active_only, include_deleted)

\* the caller iterates the queryset: the SELECT runs now
ListRows(w) ==
  /\ pc[w] = "lt_rows"
  /\ UNCHANGED <<db, nextId>>
  /\ LET l == local[w]
         sel == Filtered(l.active_only, l.include_deleted)
     IN  \E rows \in [1..Cardinality(sel) -> sel] :
           /\ \A i, j \in DOMAIN rows : i # j => rows[i] # rows[j]
           /\ OrderedByName(rows)
           /\ Return(w, [Result("list", 0, "OK", "")
                          EXCEPT !.rows = rows, !.n = l.n,
                                 !.active_only = l.active_only,
                                 !.include_deleted = l.include_deleted])

\* ---- Ticket.save ----
Priorities == {"critical", "high", "medium", "low"}

\* sla_hours.get(self.priority, 24)
sla_hours(priority) ==
  CASE priority = "critical" -> 4
    [] priority = "high" -> 8
    [] priority = "medium" -> 24
    [] priority = "low" -> 48
    [] OTHER -> 24

\* timedelta(hours=hours), in seconds
timedelta(hours) == hours * 3600

\* f"TKT-{timestamp}", the timestamp to the second
TicketNumber(now) == <<"T", "K", "T", "-">> \o Str(now)

\* "if not self.sla_deadline and self.created_at"
SetDeadline(self) ==
  IF self.sla_deadline = None /\ self.created_at # None
  THEN [self EXCEPT !.sla_deadline =
          Some((CHOOSE c \in self.created_at : TRUE) + timedelta(sla_hours(self.priority)))]
  ELSE self

\* Ticket.save up to super().save()
TicketBeforeSave(self, now) ==
  SetDeadline(IF self.ticket_number = <<>>
              THEN [self EXCEPT !.ticket_number = TicketNumber(now)]
              ELSE self)

\* Report of a save: arg is the sla_deadline (for an asset, the asset_id)
\* the caller gave.
Saved(op, id, status, given) ==
  /\ last' = [Result(op, id, status, "") EXCEPT !.arg = given]
  /\ UNCHANGED <<db, nextId, pc, local>>

\* The first save of a new Ticket. created_at is no argument: auto_now_add
\* fills it in while super().save() inserts the row.
TicketCreate(priority, sla_deadline) ==
  /\ Len(tickets) < MaxTickets
  /\ LET self == TicketBeforeSave([ticket_number |-> <<>>, priority |-> priority,
                                   created_at |-> None, sla_deadline |-> sla_deadline],
                                  clock)
         row == [self EXCEPT !.created_at = Some(clock)]
     IN  IF \E i \in DOMAIN tickets : tickets[i].ticket_number = row.ticket_number
         THEN /\ UNCHANGED tickets
              /\ Saved("ticket_create", 0, "IntegrityError", sla_deadline)
         ELSE /\ tickets' = Append(tickets, row)
              /\ Saved("ticket_create", Len(tickets) + 1, "OK", sla_deadline)
  /\ UNCHANGED <<clock, assets>>

TicketCreateCall ==
  \E priority \in Priorities, sla_deadline \in {None} \cup { Some(t) : t \in 0..MaxClock } :
    TicketCreate(priority, sla_deadline)

\* A later save of a fetched Ticket, its priority edited or not.
TicketSave(id, priority) ==
  /\ id \in DOMAIN tickets
  /\ tickets' = [tickets EXCEPT
                   ![id] = TicketBeforeSave([tickets[id] EXCEPT !.priority = priority], clock)]
  /\ Saved("ticket_save", id, "OK", None)
  /\ UNCHANGED <<clock, assets>>

TicketSaveCall ==
  \E id \in 1..MaxTickets, priority \in Priorities : TicketSave(id, priority)

Tick ==
  /\ clock < MaxClock
  /\ clock' = clock + 1
  /\ last' = NoResult
  /\ UNCHANGED <<db, nextId, pc, local, tickets, assets>>

\* ---- Asset.save ----
\* AssetType.code of two of the types
AssetTypeCodes ==
  { <<"p", "i", "p", "e">>,
    <<"p", "u", "m", "p", "_", "s", "t", "a", "t", "i", "o", "n">> }

\* an asset_id a caller passes
GivenAssetIds == { <<"A", "S", "T", "0", "0", "1">> }

\* self.asset_type.code.upper()[:3]
Prefix(code) == [i \in 1..Min({3, Len(code)}) |-> ToUpper(code[i])]

\* f"{count:06d}"
Padded(count) ==
  LET digits == Str(count)
  IN  [i \in 1..(IF Len(digits) < 6 THEN 6 - Len(digits) ELSE 0) |-> "0"] \o digits

\* Asset.objects.filter(asset_type=self.asset_type).count() + 1
NextCount(asset_type) ==
  Cardinality({ a \in assets : a.asset_type = asset_type }) + 1

\* f"{prefix}-{count:06d}"
GeneratedAssetId(asset_type) ==
  Prefix(asset_type) \o <<"-">> \o Padded(NextCount(asset_type))

\* Asset.save of a new Asset; the insert fails on an asset_id that is taken
AssetCreate(asset_type, asset_id) ==
  /\ Cardinality(assets) < MaxAssets
  /\ LET id == IF asset_id = None \/ asset_id = Some(<<>>)
               THEN GeneratedAssetId(asset_type)
               ELSE CHOOSE x \in asset_id : TRUE
     IN  IF \E a \in assets : a.asset_id = id
         THEN /\ UNCHANGED assets
              /\ Saved("asset_create", 0, "IntegrityError", asset_id)
         ELSE /\ assets' = assets \cup {[asset_type |-> asset_type, asset_id |-> id]}
              /\ Saved("asset_create", 0, "OK", asset_id)
  /\ UNCHANGED <<tickets, clock>>

AssetCreateCall ==
  \E asset_type \in AssetTypeCodes, asset_id \in {None} \cup { Some(x) : x \in GivenAssetIds } :
    AssetCreate(asset_type, asset_id)

\* asset.delete()
AssetDelete(a) ==
  /\ a \in assets
  /\ assets' = assets \ {a}
  /\ Saved("asset_delete", 0, "OK", None)
  /\ UNCHANGED <<tickets, clock>>

AssetDeleteCall == \E a \in assets : AssetDelete(a)

\* ---- specifications ----
AllIdle == \A v \in Workers : pc[v] = "idle"

\* the creations begun so far leave room for one more within the bound
RoomFor(max) == nextId + Cardinality({v \in Workers : pc[v] = "ct_commit"}) <= max

Begin(w) ==
  \/ SoftDeleteCall(w)
  \/ RestoreCall(w)
  \/ PurgeCall(w)
  \/ AddDomainCall(w)
  \/ ToggleCall(w)
  \/ GetInfoCall(w)

Continue(w) ==
  \/ CreateCommit(w)
  \/ SoftDeleteSave(w)
  \/ SoftDeleteDomains(w)
  \/ RestoreSave(w)
  \/ RestorePrimary(w)
  \/ PurgeAtomic(w)
  \/ AddDomainClear(w)
  \/ AddDomainCreate(w)
  \/ ToggleSave(w)
  \/ GetInfoDomains(w)

\* Concurrent requests: calls of different workers interleave statement by statement.
Next ==
  \E w \in Workers :
    \/ RoomFor(MaxConcurrentTenants) /\ CreateCall(w)
    \/ Begin(w)
    \/ Continue(w)

Spec == Init /\ [][Next]_vars

\* One request at a time: a call begins only when no other call is in
\* progress, so one worker serves them all.
NextSeq ==
  \E w \in {"w1"} :
    \/ AllIdle /\ RoomFor(MaxTenants) /\ CreateCall(w)
    \/ AllIdle /\ SoftDeleteCall(w)
    \/ AllIdle /\ RestoreCall(w)
    \/ AllIdle /\ PurgeCall(w)
    \/ AllIdle /\ AddDomainCall(w)
    \/ AllIdle /\ ToggleCall(w)
    \/ AllIdle /\ GetInfoCall(w)
    \/ Continue(w)

SeqSpec == Init /\ [][NextSeq]_vars

\* Creations on top of tenants that already exist: the tenants left of
\* MaxExisting creations of one name, of which any may have been soft-deleted
\* or purged since. Their schema names are base, base_1, base_2, ...
ExistingName == <<"N", " ", "w">>
ExistingSchema(i) ==
  IF i = 1 THEN Prefixed(ExistingName)
  ELSE Prefixed(ExistingName) \o <<"_">> \o Str(i - 1)
ExistingHost(i) == "g" \o Str(i)[1]

CreateInit ==
  \E present \in [1..MaxExisting -> {"PURGED", "ACTIVE", "SOFT_DELETED"}] :
    LET ids == { i \in 1..MaxExisting : present[i] # "PURGED" } IN
    /\ utility = [i \in ids |->
                    [name |-> ExistingName, schema_name |-> ExistingSchema(i),
                     is_active |-> present[i] = "ACTIVE",
                     is_deleted |-> present[i] = "SOFT_DELETED",
                     deleted_on |-> IF present[i] = "ACTIVE" THEN NoTime ELSE Now]]
    /\ domains = [k \in 1..Cardinality(ids) |->
                    LET i == CHOOSE j \in ids : Cardinality({m \in ids : m < j}) = k - 1
                    IN  [domain |-> ExistingHost(i), tenant |-> i, is_primary |-> TRUE,
                         is_active |-> present[i] = "ACTIVE"]]
    /\ schemas = { ExistingSchema(i) : i \in ids }
    /\ migrated = { ExistingSchema(i) : i \in ids }
    /\ nextId = MaxExisting + 1
    /\ pc = [w \in Workers |-> "idle"]
    /\ local = [w \in Workers |-> NoLocal]
    /\ last = NoResult
    /\ tickets = <<>>
    /\ clock = 0
    /\ assets = {}

\* One request at a time, listings among them.
NextList ==
  \/ NextSeq
  \/ \E w \in {"w1"} :
       \/ AllIdle /\ ListCall(w)
       \/ ListRows(w)

ListSpec == Init /\ [][NextList]_vars

\* Tickets are created and saved again while time passes.
TicketNext ==
  \/ TicketCreateCall
  \/ TicketSaveCall
  \/ Tick

TicketSpec == Init /\ [][TicketNext]_vars

\* Assets are created and deleted.
AssetNext ==
  \/ AssetCreateCall
  \/ AssetDeleteCall

AssetSpec == Init /\ [][AssetNext]_vars

\* Concurrent create_tenant calls only.
CreateNext ==
  \E w \in Workers :
    \/ RoomFor(MaxExisting + MaxCreated) /\ CreateCall(w)
    \/ CreateCommit(w)

CreateSpec == CreateInit /\ [][CreateNext]_vars

\* ---- properties ----

\* C1: every existing tenant has is_deleted => ~is_active and deleted_on set,
\* and ~is_deleted => deleted_on unset, in every state reached by a sequence
\* of lifecycle calls.
C1_DeleteFlagsConsistent ==
  \A id \in DOMAIN utility :
    /\ utility[id].is_deleted => (~utility[id].is_active /\ utility[id].deleted_on # NoTime)
    /\ ~utility[id].is_deleted => utility[id].deleted_on = NoTime

\* C2: permanently_delete_tenant called on a tenant that is not soft-deleted,
\* with a matching or omitted confirm_name, returns NotSoftDeleted and changes
\* no Utility row, no Domain row and no schema.
C2_PurgeRefusedOnLiveTenant ==
  [][\A w \in Workers, id \in Ids, c \in ConfirmArgs :
       ( /\ pc[w] = "idle"
         /\ last'.op = "purge" \/ pc'[w] = "pd_atomic"
         /\ Exists(id)
         /\ ~utility[id].is_deleted
         /\ ~ConfirmationFails(c, utility[id].name)
         /\ permanently_delete_tenant(w, id, c) )
       => ( /\ last' = Result("purge", id, "NotSoftDeleted", "")
            /\ pc'[w] = "idle"
            /\ UNCHANGED db )]_vars

\* a refused purge has just returned and its ACTIVE or INACTIVE tenant is still there
C2_Witness ==
  /\ last.op = "purge"
  /\ last.status = "NotSoftDeleted"
  /\ Exists(last.id)
  /\ ~utility[last.id].is_deleted
  /\ utility[last.id].schema_name \in schemas
  /\ DomainsOf(last.id) # {}

\* C3: no step drops the schema and deletes the row of a tenant whose stored
\* row has is_deleted = False at that moment.
C3_LiveTenantNeverPurged ==
  [][\A id \in Ids :
       (Exists(id) /\ id \notin DOMAIN utility') => utility[id].is_deleted]_vars

\* C4: of two concurrent soft_delete_tenant calls on one tenant only the first
\* performs the deletion: a call never writes the deletion over a row that is
\* already soft-deleted (the loser returns AlreadyDeleted instead).
C4_LoserSeesAlreadyDeleted ==
  [][\A w \in Workers :
       (pc[w] = "sd_save" /\ pc'[w] = "sd_domains")
       => ~utility[local[w].id].is_deleted]_vars

\* C5: each tenant owns at most one Domain with is_primary = True, in every
\* state reached by a sequence of lifecycle calls.
C5_AtMostOnePrimary ==
  \A id \in DOMAIN utility : Cardinality(PrimariesOf(id)) <= 1

\* a second domain has just been added as primary to a tenant that had one
C5_Witness ==
  /\ last.op = "add_domain"
  /\ last.status = "OK"
  /\ last.n = 1
  /\ Cardinality(DomainsOf(last.id)) >= 2
  /\ Cardinality(PrimariesOf(last.id)) = 1

\* C6: add_domain_to_tenant is atomic for an observer: no step takes a tenant
\* with exactly one primary domain to a state with none or with several.
C6_PrimaryNeverMissing ==
  [][\A id \in Ids :
       ( /\ Exists(id)
         /\ id \in DOMAIN utility'
         /\ Cardinality(PrimariesOf(id)) = 1 )
       => Cardinality(PrimariesIn(domains', id)) = 1]_vars

\* C7: when add_domain_to_tenant(t, d, is_primary=True) succeeds on a tenant
\* that had a primary domain, d belongs to t and is its only primary domain.
C7_NewDomainIsOnlyPrimary ==
  [][\A w \in Workers :
       ( /\ pc[w] = "ad_create"
         /\ local[w].flag
         /\ local[w].n >= 1
         /\ pc'[w] = "idle"
         /\ last'.status = "OK" )
       => ( /\ \E i \in DomainsIn(domains', local[w].id) :
                 domains'[i].domain = local[w].host
            /\ \A i \in DomainsIn(domains', local[w].id) :
                 domains'[i].is_primary <=> (domains'[i].domain = local[w].host) )]_vars

\* the call has just returned: the row it added is last and primary, an older
\* row of the tenant lost the flag
C7_Witness ==
  /\ last.op = "add_domain"
  /\ last.status = "OK"
  /\ last.n >= 1
  /\ domains # <<>>
  /\ domains[Len(domains)].tenant = last.id
  /\ domains[Len(domains)].is_primary
  /\ \E i \in DomainsOf(last.id) : i # Len(domains) /\ ~domains[i].is_primary

\* C8: add_domain_to_tenant with a domain_name that already exists ends with
\* DuplicateDomain and none of its steps changes a row, the is_primary flags
\* included.
C8_DuplicateLeavesRowsUnchanged ==
  [][\A w \in Workers :
       ( /\ pc[w] \in {"ad_clear", "ad_create"}
         /\ local[w].host \in HostNames
         /\ pc'[w] # pc[w] )
       => ( /\ UNCHANGED db
            /\ pc'[w] = "idle" => last'.status = "DuplicateDomain" )]_vars

\* C9: a create_tenant in which a step fails raises CreationError and leaves
\* no Utility row, no Domain row and no schema of that call.
C9_FailedCreateLeavesNothing ==
  [][ (last'.op = "create" \/ \E w \in Workers : pc[w] # "ct_commit" /\ pc'[w] = "ct_commit")
      => /\ \A w \in Workers, name \in Names, host \in Hosts :
              (SchemaNameRaises(name) /\ create_tenant(w, name, host))
              => (last'.status = "CreationError" /\ UNCHANGED db)
         /\ \A w \in Workers :
              ( /\ pc[w] = "ct_commit"
                /\ pc'[w] = "idle"
                /\ \/ local[w].host \in HostNames
                   \/ local[w].schema \in SchemaNames
                   \/ last'.detail # "" )
              => (last'.status = "CreationError" /\ UNCHANGED db)
         /\ (last'.op = "create" /\ last'.status # "OK")
              => (last'.status = "CreationError" /\ UNCHANGED db) ]_vars

\* the migration of a first tenant has just failed: nothing of it is left
C9_Witness ==
  /\ last.op = "create"
  /\ last.status = "CreationError"
  /\ last.detail = "migrate_schemas"
  /\ utility = <<>>
  /\ domains = <<>>
  /\ schemas = {}

\* C10: a successful create_tenant(name, domain) yields a new ACTIVE tenant
\* whose schema is provisioned and migrated, whose schema name matches
\* ^[a-z][a-z0-9_]*$ and which owns exactly one Domain: the given hostname,
\* primary and active.
C10_CreatedTenant ==
  [][\A w \in Workers :
       ( /\ pc[w] = "ct_commit"
         /\ pc'[w] = "idle"
         /\ last'.status = "OK" )
       => LET id == last'.id IN
          /\ ~Exists(id)
          /\ id \in DOMAIN utility'
          /\ utility'[id].name = local[w].name
          /\ utility'[id].is_active
          /\ ~utility'[id].is_deleted
          /\ utility'[id].schema_name \in schemas'
          /\ utility'[id].schema_name \in migrated'
          /\ MatchesSchemaPattern(utility'[id].schema_name)
          /\ Cardinality(DomainsIn(domains', id)) = 1
          /\ \A i \in DomainsIn(domains', id) :
               /\ domains'[i].domain = local[w].host
               /\ domains'[i].is_primary
               /\ domains'[i].is_active ]_vars

\* a tenant whose name collided has just been created: its schema name carries
\* the prefix and a uniqueness suffix
C10_Witness ==
  /\ last.op = "create"
  /\ last.status = "OK"
  /\ Exists(last.id)
  /\ utility[last.id].is_active
  /\ Len(utility[last.id].schema_name) > Len(Prefixed(utility[last.id].name))
  /\ Cardinality(DomainsOf(last.id)) = 1

\* C11: a successful soft_delete_tenant on an ACTIVE or INACTIVE tenant sets
\* is_deleted = True, is_active = False and deleted_on = now, sets
\* is_active = False on every Domain of the tenant, and none of its steps
\* deletes a Domain row or a schema.
C11_SoftDeleteEffects ==
  [][\A w \in Workers :
       /\ ( /\ pc[w] = "sd_save"
            /\ pc'[w] # pc[w]
            /\ Exists(local[w].id)
            /\ ~utility[local[w].id].is_deleted )
          => ( /\ pc'[w] = "sd_domains"
               /\ domains' = domains
               /\ schemas' = schemas )
       /\ ( /\ pc[w] = "sd_domains"
            /\ pc'[w] = "idle" )
          => LET id == local[w].id IN
             /\ last' = Result("soft_delete", id, "OK", "")
             /\ id \in DOMAIN utility'
             /\ utility'[id].is_deleted
             /\ ~utility'[id].is_active
             /\ utility'[id].deleted_on = Now
             /\ utility'[id].schema_name \in schemas'
             /\ schemas' = schemas
             /\ Len(domains') = Len(domains)
             /\ \A i \in DOMAIN domains :
                  /\ domains'[i].domain = domains[i].domain
                  /\ domains'[i].tenant = domains[i].tenant
                  /\ domains'[i].is_primary = domains[i].is_primary
                  /\ domains[i].tenant = id => ~domains'[i].is_active
                  /\ domains[i].tenant # id => domains'[i] = domains[i] ]_vars

\* a tenant with two domains has just been soft-deleted
C11_Witness ==
  /\ last.op = "soft_delete"
  /\ last.status = "OK"
  /\ Exists(last.id)
  /\ utility[last.id].is_deleted
  /\ ~utility[last.id].is_active
  /\ utility[last.id].deleted_on = Now
  /\ utility[last.id].schema_name \in schemas
  /\ Cardinality(DomainsOf(last.id)) >= 2
  /\ \A i \in DomainsOf(last.id) : ~domains[i].is_active

\* C12: soft_delete_tenant and permanently_delete_tenant called with a
\* confirm_name that is a string other than the tenant's name fail with
\* ConfirmationMismatch and change no row and no schema.
C12_MismatchRefused ==
  [][\A w \in Workers, id \in Ids, c \in ConfirmArgs :
       ( /\ pc[w] = "idle"
         /\ pc'[w] \in {"sd_save", "pd_atomic"} \/ last'.op \in {"soft_delete", "purge"}
         /\ Exists(id)
         /\ c # None
         /\ c # Some(utility[id].name)
         /\ soft_delete_tenant(w, id, c) \/ permanently_delete_tenant(w, id, c) )
       => ( /\ last'.status = "ConfirmationMismatch"
            /\ pc'[w] = "idle"
            /\ UNCHANGED db )]_vars

\* C13 (as stated): soft_delete_tenant on a tenant that is already
\* soft-deleted fails with AlreadyDeleted, whatever confirm_name is, and
\* changes nothing.
C13_AlreadyDeletedAlways ==
  [][\A w \in Workers :
       (pc[w] = "idle" /\ (pc'[w] = "sd_save" \/ last'.op = "soft_delete"))
       => \A id \in Ids, c \in ConfirmArgs :
            ( /\ Exists(id)
              /\ utility[id].is_deleted
              /\ soft_delete_tenant(w, id, c) )
            => ( /\ last' = Result("soft_delete", id, "AlreadyDeleted", "")
                 /\ UNCHANGED db )]_vars

\* C13 (amended): soft_delete_tenant on a tenant that is already soft-deleted
\* never succeeds and changes nothing: it fails with AlreadyDeleted when
\* confirm_name is omitted, empty or the tenant's name, and with
\* ConfirmationMismatch, the earlier check, otherwise.
C13_AlreadyDeletedAfterConfirmation ==
  [][\A w \in Workers :
       (pc[w] = "idle" /\ (pc'[w] = "sd_save" \/ last'.op = "soft_delete"))
       => \A id \in Ids, c \in ConfirmArgs :
            ( /\ Exists(id)
              /\ utility[id].is_deleted
              /\ soft_delete_tenant(w, id, c) )
            => ( /\ pc'[w] = "idle"
                 /\ UNCHANGED db
                 /\ last' = Result("soft_delete", id,
                                    IF c \in {None, Some(<<>>), Some(utility[id].name)}
                                    THEN "AlreadyDeleted" ELSE "ConfirmationMismatch", "") )]_vars

\* a second soft_delete_tenant has just been refused, the tenant is as the
\* first one left it
C13_Witness ==
  /\ last.op = "soft_delete"
  /\ last.status = "AlreadyDeleted"
  /\ Exists(last.id)
  /\ utility[last.id].is_deleted
  /\ ~utility[last.id].is_active
  /\ utility[last.id].deleted_on = Now
  /\ \A i \in DomainsOf(last.id) : ~domains[i].is_active

\* C14: restore_tenant run directly after a successful soft_delete_tenant of
\* the same tenant leaves it with is_active = True, is_deleted = False and
\* deleted_on unset, its primary domain active and its other domains inactive.
C14_SoftDeleteThenRestore ==
  [][\A w \in Workers :
       ( /\ pc[w] = "rs_primary"
         /\ pc'[w] = "idle"
         /\ local[w].after.op = "soft_delete" )
       => LET id == local[w].id IN
          /\ last'.status = "OK"
          /\ id \in DOMAIN utility'
          /\ Flags(utility'[id]) = [is_active |-> TRUE, is_deleted |-> FALSE,
                                    deleted_on |-> NoTime]
          /\ DomainsIn(domains', id) = DomainsOf(id)
          /\ \A i \in DomainsIn(domains', id) :
               domains'[i].is_active <=> domains'[i].is_primary ]_vars

\* a tenant with a primary and another domain has just been restored, right
\* after its soft-deletion
C14_Witness ==
  /\ last.op = "restore"
  /\ last.status = "OK"
  /\ last.after.op = "soft_delete"
  /\ Exists(last.id)
  /\ utility[last.id].is_active
  /\ \E i, j \in DomainsOf(last.id) :
       /\ domains[i].is_primary /\ domains[i].is_active
       /\ ~domains[j].is_primary /\ ~domains[j].is_active

\* C15: restore_tenant on a tenant that is not soft-deleted returns NotDeleted
\* and changes no row: an INACTIVE tenant stays INACTIVE.
C15_RestoreRefusedOnLiveTenant ==
  [][\A w \in Workers, id \in Ids :
       ( /\ pc[w] = "idle"
         /\ pc'[w] = "rs_save" \/ last'.op = "restore"
         /\ Exists(id)
         /\ ~utility[id].is_deleted
         /\ restore_tenant(w, id) )
       => ( /\ last' = Result("restore", id, "NotDeleted", "")
            /\ pc'[w] = "idle"
            /\ UNCHANGED db )]_vars

\* the restore of an INACTIVE tenant has just been refused
C15_Witness ==
  /\ last.op = "restore"
  /\ last.status = "NotDeleted"
  /\ Exists(last.id)
  /\ ~utility[last.id].is_deleted
  /\ ~utility[last.id].is_active
  /\ utility[last.id].deleted_on = NoTime

\* C16: toggle_tenant_status on a soft-deleted tenant, with or without an
\* is_active value, fails with an error and leaves the tenant's is_active as
\* it was.
C16_ToggleRefusedOnDeleted ==
  [][\A w \in Workers :
       ( /\ pc[w] = "tg_save"
         /\ pc'[w] = "idle"
         /\ local[w].was.is_deleted
         /\ Exists(local[w].id)
         /\ utility[local[w].id].is_deleted )
       => ( /\ last'.status # "OK"
            /\ local[w].id \in DOMAIN utility'
            /\ utility'[local[w].id].is_active = utility[local[w].id].is_active )]_vars

\* C17: on an ACTIVE or INACTIVE tenant toggle_tenant_status without a value
\* flips is_active and with a value sets is_active to it, changing nothing
\* else; the second of two calls without a value in a row returns the
\* lifecycle flags to what the first call found, name, schema name and Domain
\* rows having stayed as they were.
C17_ToggleFlipsAndReturns ==
  [][\A w \in Workers :
       ( /\ pc[w] = "tg_save"
         /\ pc'[w] = "idle"
         /\ ~local[w].was.is_deleted )
       => LET id == local[w].id
              l == local[w]
          IN  /\ last'.status = "OK"
              /\ id \in DOMAIN utility'
              /\ l.arg = None => utility'[id].is_active = ~l.was.is_active
              /\ \A b \in l.arg : utility'[id].is_active = b
              /\ (l.after.op = "toggle" /\ ~l.after.was.is_deleted)
                   => Flags(utility'[id]) = l.after.was
              /\ utility'[id] = [utility[id] EXCEPT !.is_active = utility'[id].is_active]
              /\ \A j \in DOMAIN utility \ {id} :
                   j \in DOMAIN utility' /\ utility'[j] = utility[j]
              /\ domains' = domains
              /\ schemas' = schemas ]_vars

\* the second of two calls without a value has just returned: the tenant, with
\* a domain, is ACTIVE again
C17_Witness ==
  /\ last.op = "toggle"
  /\ last.status = "OK"
  /\ last.arg = None
  /\ last.after.op = "toggle"
  /\ last.after.was = [is_active |-> TRUE, is_deleted |-> FALSE, deleted_on |-> NoTime]
  /\ Exists(last.id)
  /\ utility[last.id].is_active
  /\ ~utility[last.id].is_deleted
  /\ DomainsOf(last.id) # {}

\* C18: permanently_delete_tenant is all-or-nothing: when it returns success
\* the schema, the Utility row and all its Domain rows are gone, and when it
\* fails, at a check, at the schema drop or at the row delete, all of them
\* are as they were.
C18_PurgeAllOrNothing ==
  [][\A w \in Workers :
       /\ ( /\ pc[w] = "pd_atomic"
            /\ pc'[w] = "idle"
            /\ Exists(local[w].id)
            /\ local[w].schema \in schemas )
          => LET id == local[w].id IN
             \/ /\ last'.status = "OK"
                /\ id \notin DOMAIN utility'
                /\ local[w].schema \notin schemas'
                /\ DomainsIn(domains', id) = {}
             \/ /\ last'.status = "Failed"
                /\ id \in DOMAIN utility'
                /\ utility'[id] = utility[id]
                /\ local[w].schema \in schemas'
                /\ local[w].schema \in migrated' <=> local[w].schema \in migrated
                /\ domains' = domains
       /\ ( /\ pc[w] = "idle"
            /\ pc' = pc
            /\ last'.op = "purge"
            /\ \E id \in Ids, c \in ConfirmArgs : permanently_delete_tenant(w, id, c) )
          => ( /\ last'.status \in {"NotFound", "ConfirmationMismatch", "NotSoftDeleted"}
               /\ UNCHANGED db ) ]_vars

\* the row delete has just failed after the schema drop: schema, row and
\* domains are all still there
C18_Witness ==
  /\ last.op = "purge"
  /\ last.status = "Failed"
  /\ last.detail = "delete"
  /\ Exists(last.id)
  /\ utility[last.id].is_deleted
  /\ utility[last.id].schema_name \in schemas
  /\ DomainsOf(last.id) # {}

\* C19: the tenant of every Domain row exists, in every reachable state; a
\* successful permanently_delete_tenant removes exactly the Domain rows of
\* the purged tenant and leaves the rows of other tenants as they were.
C19_NoOrphanDomains ==
  /\ [](\A i \in DOMAIN domains : domains[i].tenant \in DOMAIN utility)
  /\ [][\A w \in Workers :
          ( /\ pc[w] = "pd_atomic"
            /\ pc'[w] = "idle"
            /\ last'.status = "OK" )
          => domains' = SelectSeq(domains, LAMBDA d : d.tenant # local[w].id)]_vars

\* a tenant has just been purged while another tenant keeps its domain
C19_Witness ==
  /\ last.op = "purge"
  /\ last.status = "OK"
  /\ ~Exists(last.id)
  /\ domains # <<>>
  /\ \A i \in DOMAIN domains : domains[i].tenant # last.id /\ Exists(domains[i].tenant)

\* The ids permanently_delete_tenant has succeeded for: ids are handed out in
\* increasing order and a row is deleted by nothing else.
Purged == { id \in Ids : id < nextId /\ ~Exists(id) }

\* C20: a purged id never comes back; no call begun on it gets past its
\* lookup, and get_tenant_info and every lifecycle call on it return NotFound
\* and change nothing; on a soft-deleted tenant get_tenant_info succeeds and
\* reports is_deleted = True.
C20_PurgeIsPermanent ==
  [][/\ \A id \in Purged :
          /\ id \notin DOMAIN utility'
          /\ \A w \in Workers :
               ~(pc[w] = "idle" /\ pc'[w] # "idle" /\ local'[w].id = id)
          /\ (last'.op \in {"info", "soft_delete", "restore", "purge", "toggle", "add_domain"}
                /\ last'.id = id)
               => (last'.status = "NotFound" /\ UNCHANGED db)
     /\ \A w \in Workers, id \in Ids :
          ( /\ pc[w] = "idle"
            /\ pc'[w] = "gi_domains"
            /\ local'[w].id = id
            /\ Exists(id)
            /\ utility[id].is_deleted
            /\ get_tenant_info(w, id) )
          => local'[w].was.is_deleted
     /\ \A w \in Workers :
          ( /\ pc[w] = "gi_domains"
            /\ pc'[w] = "idle"
            /\ local[w].was.is_deleted )
          => ( /\ last'.op = "info"
               /\ last'.status = "OK"
               /\ last'.info.id = local[w].id
               /\ last'.info.is_deleted ) ]_vars

\* get_tenant_info has just failed with NotFound on a purged id
C20_Witness ==
  /\ last.op = "info"
  /\ last.status = "NotFound"
  /\ last.id \in Purged

\* C21: every schema identifier produced at creation, for any name and any
\* set of existing tenants, matches ^[a-z][a-z0-9_]*$, with or without a
\* uniqueness suffix; so does the one Utility.save derives for a row saved
\* without a schema name.
C21_SchemaNameWellFormed ==
  /\ [](\A id \in DOMAIN utility : MatchesSchemaPattern(utility[id].schema_name))
  /\ [](\A name \in Names : MatchesSchemaPattern(UtilitySaveSchemaName(name)))
  /\ [][\A w \in Workers :
          (pc[w] = "idle" /\ pc'[w] = "ct_commit")
          => MatchesSchemaPattern(local'[w].schema)]_vars

\* two tenants of a name that needs the prefix have been created: the second
\* identifier carries prefix and suffix
C21_Witness ==
  /\ last.op = "create"
  /\ last.status = "OK"
  /\ Exists(last.id)
  /\ utility[last.id].name = <<"1", "A", " ", "-">>
  /\ utility[last.id].schema_name =
       <<"t","e","n","a","n","t","_","1","a","_","_","1">>

\* C22: create_tenant with a name that normalizes to the empty string gets a
\* valid non-empty schema identifier and goes on to create the tenant.
C22_EmptyNormalizedNameAccepted ==
  [][\A w \in Workers :
       (pc[w] = "idle" /\ (last'.op = "create" \/ pc'[w] = "ct_commit"))
       => \A name \in Names, host \in Hosts :
            (SchemaNameRaises(name) /\ create_tenant(w, name, host))
            => ( /\ pc'[w] = "ct_commit"
                 /\ MatchesSchemaPattern(local'[w].schema) )]_vars

\* C23: no two existing tenants, soft-deleted ones included, have the same
\* schema identifier, in every state concurrent create_tenant calls reach.
C23_SchemaNamesUnique ==
  \A i, j \in DOMAIN utility :
    i # j => utility[i].schema_name # utility[j].schema_name

\* of two concurrent creations that derived the same identifier the second to
\* commit has just failed on it; a soft-deleted tenant is among the others
C23_Witness ==
  /\ last.op = "create"
  /\ last.status = "CreationError"
  /\ last.detail = "IntegrityError(schema_name)"
  /\ Cardinality(DOMAIN utility) >= 2
  /\ \E id \in DOMAIN utility : utility[id].is_deleted
  /\ \E id \in DOMAIN utility : id > MaxExisting

\* C28: schema-name generation returns the base when no tenant uses it, and
\* otherwise base_k for the smallest k >= 1 that no existing tenant uses.
C28_SmallestFreeSuffix ==
  [][\A w \in Workers :
       (pc[w] = "idle" /\ pc'[w] = "ct_commit")
       => LET base == Prefixed(local'[w].name)
              got == local'[w].schema
              Suffixed(k) == base \o <<"_">> \o Str(k)
          IN  IF base \notin SchemaNames
              THEN got = base
              ELSE \E k \in 1..(Cardinality(SchemaNames) + 1) :
                     /\ got = Suffixed(k)
                     /\ got \notin SchemaNames
                     /\ \A j \in 1..(k - 1) : Suffixed(j) \in SchemaNames ]_vars

\* base and base_2 are taken and a creation has derived base_1
C28_Witness ==
  \E w \in Workers :
    /\ pc[w] = "ct_commit"
    /\ local[w].schema = Prefixed(local[w].name) \o <<"_", "1">>
    /\ Prefixed(local[w].name) \in SchemaNames
    /\ (Prefixed(local[w].name) \o <<"_", "2">>) \in SchemaNames

\* C24: no step changes the schema_name of a tenant that exists before and
\* after it: soft delete, restore, toggle, add domain, a failed purge and the
\* creation of other tenants, of the same name too, leave it as it was.
C24_SchemaNameImmutable ==
  [][\A id \in DOMAIN utility \cap DOMAIN utility' :
       utility'[id].schema_name = utility[id].schema_name]_vars

\* a second tenant of the same name has just been created next to one that
\* has been soft-deleted
C24_Witness ==
  /\ last.op = "create"
  /\ last.status = "OK"
  /\ \E id \in DOMAIN utility :
       /\ id # last.id
       /\ utility[id].name = utility[last.id].name
       /\ utility[id].is_deleted
       /\ utility[id].schema_name = Prefixed(utility[id].name)

\* C26: whenever no call is in progress, every existing tenant owns at least
\* one domain and exactly one of its domains is primary.
C26_ExactlyOnePrimary ==
  AllIdle =>
    \A id \in DOMAIN utility :
      /\ DomainsOf(id) # {}
      /\ Cardinality(PrimariesOf(id)) = 1

\* C27: whenever no call is in progress, every domain of a soft-deleted
\* tenant is inactive.
C27_SoftDeletedDomainsInactive ==
  AllIdle =>
    \A i \in DOMAIN domains :
      (Exists(domains[i].tenant) /\ utility[domains[i].tenant].is_deleted)
      => ~domains[i].is_active

\* C25: a listing changes nothing, and the rows it yields are ordered by name
\* and are exactly: the tenants that are not deleted when include_deleted is
\* False, among them (or among all, when include_deleted is True) only the
\* active ones when active_only is True, and every tenant when both flags are
\* permissive; active_only without include_deleted yields the ACTIVE tenants.
C25_ListTenants ==
  [][(last'.op = "list" \/ \E w \in Workers : pc'[w] = "lt_rows")
     => /\ UNCHANGED <<db, nextId>>
        /\ last'.op = "list" =>
             LET rows == last'.rows
                 ids == { rows[i] : i \in DOMAIN rows }
                 Active(id) == utility[id].is_active /\ ~utility[id].is_deleted
             IN  /\ Cardinality(ids) = Len(rows)
                 /\ \A i \in 1..(Len(rows) - 1) :
                      NameLeq(utility[rows[i]].name, utility[rows[i + 1]].name)
                 /\ (~last'.active_only /\ last'.include_deleted)
                      => ids = DOMAIN utility
                 /\ (~last'.active_only /\ ~last'.include_deleted)
                      => ids = { id \in DOMAIN utility : ~utility[id].is_deleted }
                 /\ (last'.active_only /\ ~last'.include_deleted)
                      => ids = { id \in DOMAIN utility : Active(id) }
                 /\ (last'.active_only /\ last'.include_deleted)
                      => ids = { id \in DOMAIN utility : utility[id].is_active }]_vars

\* a listing with both flags permissive yields the tenant created second
\* before the first, which is soft-deleted
C25_Witness ==
  /\ last.op = "list"
  /\ ~last.active_only
  /\ last.include_deleted
  /\ last.rows = <<2, 1>>
  /\ utility[1].is_deleted

\* C29: a ticket created without an sla_deadline has, once its first save
\* is done, an sla_deadline of created_at plus 4 hours (critical), 8 (high),
\* 24 (medium) or 48 (low); and no save changes an sla_deadline that is set.
C29_DeadlineSetOnFirstSave ==
  [][/\ (last'.op = "ticket_create" /\ last'.status = "OK" /\ last'.arg = None)
        => LET t == tickets'[last'.id]
               hours == CASE t.priority = "critical" -> 4
                          [] t.priority = "high" -> 8
                          [] t.priority = "medium" -> 24
                          [] t.priority = "low" -> 48
           IN  \E c \in t.created_at : t.sla_deadline = Some(c + hours * 3600)
     /\ \A i \in DOMAIN tickets :
          tickets[i].sla_deadline # None
          => tickets'[i].sla_deadline = tickets[i].sla_deadline]_vars

\* C30: an asset saved without an asset_id, after any creations and
\* deletions, gets an id no existing asset has, and its save succeeds.
C30_GeneratedAssetIdFree ==
  [][(last'.op = "asset_create" /\ last'.arg = None)
     => /\ last'.status = "OK"
        /\ \E a \in assets' \ assets :
             \A b \in assets : b.asset_id # a.asset_id]_vars

====
